---- MODULE Spec2Model ----
(***************************************************************************)
(* Model of the document pipeline: DataHandler (src/data_handler.py) and   *)
(* the interactive query loop (src/pipeline.py).                           *)
(*                                                                         *)
(* Python strings are sequences of one-character strings, so that split,   *)
(* strip, lower, stem and join are computed the way the code computes      *)
(* them.                                                                   *)
(***************************************************************************)
EXTENDS Integers, Sequences, FiniteSets, TLC

(***************************************************************************)
(* Bounds                                                                  *)
(***************************************************************************)
MaxFiles == 2
MaxLoads == 1
MaxTurns == 2

(***************************************************************************)
(* Python string primitives                                                *)
(***************************************************************************)
\* Python's None: a value that is no string
None == << "NoneType" >>

Range(s) == {s[i] : i \in 1..Len(s)}

\* str.lower() on the letters that occur in the model's alphabet
LowerChar(c) ==
    CASE c = "P" -> "p" [] c = "D" -> "d" [] c = "F" -> "f"
      [] c = "T" -> "t" [] c = "X" -> "x" [] c = "Q" -> "q"
      [] c = "B" -> "b" [] c = "K" -> "k"
      [] OTHER -> c

Lower(s) == [i \in 1..Len(s) |-> LowerChar(s[i])]

Whitespace == {" ", "\n", "\t"}

RECURSIVE LStrip(_)
LStrip(s) ==
    IF s # << >> /\ Head(s) \in Whitespace THEN LStrip(Tail(s)) ELSE s

RECURSIVE RStrip(_)
RStrip(s) ==
    IF s # << >> /\ s[Len(s)] \in Whitespace
    THEN RStrip(SubSeq(s, 1, Len(s) - 1)) ELSE s

\* str.strip()
Strip(s) == RStrip(LStrip(s))

\* index of the first occurrence of c in s, 0 when absent (str.find)
RECURSIVE FindFrom(_, _, _)
FindFrom(s, c, i) ==
    IF i > Len(s) THEN 0
    ELSE IF s[i] = c THEN i ELSE FindFrom(s, c, i + 1)

Find(s, c) == FindFrom(s, c, 1)

\* index of the last occurrence of c in s, 0 when absent (str.rfind)
RECURSIVE RFindFrom(_, _, _)
RFindFrom(s, c, i) ==
    IF i < 1 THEN 0
    ELSE IF s[i] = c THEN i ELSE RFindFrom(s, c, i - 1)

RFind(s, c) == RFindFrom(s, c, Len(s))

\* str.split(sep): the list of all pieces, never empty
RECURSIVE Split(_, _)
Split(s, sep) ==
    LET i == Find(s, sep) IN
    IF i = 0 THEN << s >>
    ELSE << SubSeq(s, 1, i - 1) >> \o Split(SubSeq(s, i + 1, Len(s)), sep)

\* str.split(sep, 1): at most one split, at the first separator
Split1(s, sep) ==
    LET i == Find(s, sep) IN
    IF i = 0 THEN << s >>
    ELSE << SubSeq(s, 1, i - 1), SubSeq(s, i + 1, Len(s)) >>

\* list[-1]
Last(l) == l[Len(l)]

\* file.split(".")[-1]
LastDotPiece(s) == Last(Split(s, "."))

\* pathlib: Path(p).name, the final path component
PathName(p) == Last(Split(p, "/"))

\* pathlib: Path(p).stem, the name without its last suffix; a leading dot
\* or a trailing dot starts no suffix
PathStem(p) ==
    LET n == PathName(p)
        i == RFind(n, ".")
    IN IF 1 < i /\ i < Len(n) THEN SubSeq(n, 1, i - 1) ELSE n

\* os.path.join(root, file)
PathJoin(root, file) == root \o << "/" >> \o file


(***************************************************************************)
(* String constants                                                        *)
(***************************************************************************)
S_pdf == << "p", "d", "f" >>
S_PDF == << "P", "D", "F" >>
S_txt == << "t", "x", "t" >>
S_TXT == << "T", "X", "T" >>
S_docx == << "d", "o", "c", "x" >>
S_DOCX == << "D", "O", "C", "X" >>
S_pptx == << "p", "p", "t", "x" >>
S_PPTX == << "P", "P", "T", "X" >>
S_nxml == << "n", "x", "m", "l" >>
S_gitkeep == << ".", "g", "i", "t", "k", "e", "e", "p" >>
S_dot_txt == << ".", "t", "x", "t" >>
S_NoneStr == << "N", "o", "n", "e" >>
S_StatPearls ==
    << "S", "t", "a", "t", "P", "e", "a", "r", "l", "s", " ",
       "C", "h", "a", "p", "t", "e", "r", ":", " " >>
S_LLMError ==
    << "[LLM Error: Could not get a response]" >>

\* sec-type attribute values are only compared for equality
ContinuingEducation == << "Continuing Education Activity" >>
Introduction == << "Introduction" >>

(***************************************************************************)
(* The files that may lie in the source tree, and what the format          *)
(* libraries (fitz, docx2txt, python-pptx, lxml) read from each of them.   *)
(***************************************************************************)
RootDir == << "d" >>
SubDir == << "d", "/", "s" >>

Fixtures ==
    << [dir |-> RootDir, name |-> << "a", ".", "p", "d", "f" >>,
        content |-> [pages |-> << << "m", "-", "\n", "s" >>, << "o", "\n", "k" >> >>]],
       [dir |-> RootDir, name |-> << "B", ".", "P", "D", "F" >>,
        content |-> [pages |-> << << "z" >> >>]],
       [dir |-> RootDir, name |-> << "c", ".", "e", "x", "e" >>,
        content |-> [raw |-> << "!" >>]],
       [dir |-> RootDir, name |-> S_gitkeep,
        content |-> [raw |-> << >>]],
       [dir |-> RootDir, name |-> << "e", ".", "t", "x", "t" >>,
        content |-> [text |-> << >>]],
       [dir |-> SubDir, name |-> << "n", ".", "n", "x", "m", "l" >>,
        content |-> [title |-> [present |-> FALSE, text |-> None],
                     secs |-> << [sec_type |-> Introduction,
                                  elems |-> << [tag |-> "p", text |-> << "u" >>] >>] >>]],
       [dir |-> SubDir, name |-> << "m", ".", "n", "x", "m", "l" >>,
        content |-> [title |-> [present |-> TRUE, text |-> << "K" >>],
                     secs |-> << [sec_type |-> Introduction,
                                  elems |-> << [tag |-> "title", text |-> << "I" >>],
                                               [tag |-> "list", text |-> << "l" >>],
                                               [tag |-> "p", text |-> << "x" >>] >>],
                                 [sec_type |-> ContinuingEducation,
                                  elems |-> << [tag |-> "p", text |-> << "y" >>] >>],
                                 [sec_type |-> None,
                                  elems |-> << [tag |-> "p", text |-> << "v" >>] >>] >>]],
       [dir |-> RootDir, name |-> << "a", ".", "t", "x", "t" >>,
        content |-> [text |-> << "w" >>]],
       [dir |-> SubDir, name |-> << " ", "q", ".", "p", "p", "t", "x" >>,
        content |-> [slides |-> << << [has_text |-> TRUE, text |-> << "h" >>],
                                      [has_text |-> FALSE, text |-> << >>] >>,
                                   << [has_text |-> TRUE, text |-> << "i" >>] >> >>]],
       [dir |-> RootDir, name |-> << "g", ".", "v", ".", "d", "o", "c", "x" >>,
        content |-> [text |-> << "t" >>]],
       [dir |-> SubDir, name |-> << "o", ".", "n", "x", "m", "l" >>,
        content |-> [title |-> [present |-> TRUE, text |-> << "J" >>],
                     secs |-> << [sec_type |-> ContinuingEducation,
                                  elems |-> << [tag |-> "p", text |-> << "y" >>] >>] >>]] >>

FixturePath(i) == PathJoin(Fixtures[i].dir, Fixtures[i].name)

AllPaths == {FixturePath(i) : i \in 1..Len(Fixtures)}

\* path -> index in Fixtures
PathIndex == [p \in AllPaths |-> CHOOSE i \in 1..Len(Fixtures) : FixturePath(i) = p]

FixtureOf(path) == PathIndex[path]

ContentOf(path) == Fixtures[FixtureOf(path)].content

DirOf(path) == Fixtures[FixtureOf(path)].dir

NameOf(path) == Fixtures[FixtureOf(path)].name

\* all orders in which a directory listing may come back
Orders(S) ==
    {o \in [1..Cardinality(S) -> S] : \A i, j \in DOMAIN o : o[i] = o[j] => i = j}


(***************************************************************************)
(* Format extractors                                                       *)
(***************************************************************************)
Letters ==
    {"a", "b", "c", "d", "e", "f", "g", "h", "i", "j", "k", "l", "m", "n",
     "o", "p", "q", "r", "s", "t", "u", "v", "w", "x", "y", "z",
     "A", "B", "C", "D", "E", "F", "G", "H", "I", "J", "K", "L", "M", "N",
     "O", "P", "Q", "R", "S", "T", "U", "V", "W", "X", "Y", "Z"}

Digits == {"0", "1", "2", "3", "4", "5", "6", "7", "8", "9"}

\* the regular expression class \w
WordChar(c) == c \in Letters \cup Digits \cup {"_"}

\* end of the maximal run of \w characters that starts at i
RECURSIVE WordRunEnd(_, _)
WordRunEnd(s, i) ==
    IF i + 1 <= Len(s) /\ WordChar(s[i + 1]) THEN WordRunEnd(s, i + 1) ELSE i

\* re.sub(r"(\w+)-\n(\w+)", r"\1\2", text): leftmost non-overlapping matches
RECURSIVE FixHyphens(_, _)
FixHyphens(s, i) ==
    IF i > Len(s) THEN << >>
    ELSE IF ~WordChar(s[i]) THEN << s[i] >> \o FixHyphens(s, i + 1)
    ELSE LET r == WordRunEnd(s, i) IN
         IF r + 3 <= Len(s) /\ s[r + 1] = "-" /\ s[r + 2] = "\n" /\ WordChar(s[r + 3])
         THEN LET e == WordRunEnd(s, r + 3) IN
              SubSeq(s, i, r) \o SubSeq(s, r + 3, e) \o FixHyphens(s, e + 1)
         ELSE SubSeq(s, i, r) \o FixHyphens(s, r + 1)

\* re.sub(r"(?<!\n)\n(?!\n)", " ", text)
JoinWrappedLines(s) ==
    [i \in 1..Len(s) |->
        IF s[i] = "\n" /\ (i = 1 \/ s[i - 1] # "\n") /\ (i = Len(s) \/ s[i + 1] # "\n")
        THEN " " ELSE s[i]]

RECURSIVE PdfPagesText(_)
PdfPagesText(pages) ==
    IF pages = << >> THEN << >>
    ELSE Head(pages) \o << "\n", "\n" >> \o PdfPagesText(Tail(pages))

clean_pdf(file) ==
    IF Lower(LastDotPiece(file)) # S_pdf THEN [raise |-> "ValueError"]
    ELSE [raise |-> "",
          title |-> PathStem(file),
          text |-> JoinWrappedLines(FixHyphens(PdfPagesText(ContentOf(file).pages), 1))]

clean_txt(file) ==
    IF LastDotPiece(file) \notin {S_txt, S_TXT} THEN [raise |-> "ValueError"]
    ELSE [raise |-> "", title |-> PathStem(file), text |-> ContentOf(file).text]

clean_docx(file) ==
    IF LastDotPiece(file) \notin {S_docx, S_DOCX} THEN [raise |-> "ValueError"]
    ELSE [raise |-> "",
          title |-> Split(Last(Split(file, "/")), ".")[1],
          text |-> ContentOf(file).text]

RECURSIVE ShapesText(_)
ShapesText(shapes) ==
    IF shapes = << >> THEN << >>
    ELSE (IF Head(shapes).has_text THEN Head(shapes).text ELSE << >>)
         \o ShapesText(Tail(shapes))

RECURSIVE SlidesText(_)
SlidesText(slides) ==
    IF slides = << >> THEN << >>
    ELSE ShapesText(Head(slides)) \o SlidesText(Tail(slides))

clean_pptx(file) ==
    IF LastDotPiece(file) \notin {S_pptx, S_PPTX} THEN [raise |-> "ValueError"]
    ELSE [raise |-> "", title |-> PathStem(file), text |-> SlidesText(ContentOf(file).slides)]

RECURSIVE SecElemsText(_)
SecElemsText(elems) ==
    IF elems = << >> THEN << >>
    ELSE LET el == Head(elems) IN
         (IF el.tag \in {"title", "p"} /\ el.text # None /\ el.text # << >>
          THEN el.text \o << "\n" >> ELSE << >>)
         \o SecElemsText(Tail(elems))

RECURSIVE SecsText(_)
SecsText(secs) ==
    IF secs = << >> THEN << >>
    ELSE LET sec == Head(secs) IN
         (IF sec.sec_type # None /\ sec.sec_type # ContinuingEducation
          THEN SecElemsText(sec.elems) ELSE << >>)
         \o SecsText(Tail(secs))

\* f"{title}" of a title element's text, which is None for an empty element
FormatTitle(t) == IF t = None THEN S_NoneStr ELSE t

clean_nxml(file) ==
    IF LastDotPiece(file) # S_nxml THEN [raise |-> "ValueError"]
    ELSE LET doc == ContentOf(file)
             text == SecsText(doc.secs)
         IN IF ~doc.title.present
            THEN [raise |-> "", title |-> None, text |-> None]
            ELSE IF text = << >>
            THEN [raise |-> "", title |-> None, text |-> None]
            ELSE [raise |-> "",
                  title |-> S_StatPearls \o FormatTitle(doc.title.text),
                  text |-> text]


(***************************************************************************)
(* State                                                                   *)
(***************************************************************************)
VARIABLES
    fs,               \* paths of the files that exist under data_path
    cleaned,          \* the files under clean_data_path: file name -> content
    artifact,         \* vectorized_data.json: [exists, json]
    data,             \* self.data
    data_dict,        \* self.data_dict: title -> text
    vectorized_data,  \* self.vectorized_data: title -> embedding
    hstate,           \* "ready", or "failed" once a call has raised
    loads,            \* number of load_data calls so far
    lastOp,           \* the DataHandler method that ran last
    lastError,        \* the exception it raised, "" if none
    embedCalls,       \* number of embed_text calls of the last method
    cleanLog,         \* one record per document the last clean_data stored
    pc,               \* query loop: "idle", "input", "done" or "crashed"
    turns,            \* query loop: input lines read so far
    turn              \* query loop: what the last iteration did

hvars == << fs, cleaned, artifact, data, data_dict, vectorized_data, hstate,
            loads, lastOp, lastError, embedCalls, cleanLog >>

lvars == << pc, turns, turn >>

vars == << fs, cleaned, artifact, data, data_dict, vectorized_data, hstate,
           loads, lastOp, lastError, embedCalls, cleanLog, pc, turns, turn >>

\* a dict with no entries
EmptyDict == << >>

\* d[k] = v
DictSet(d, k, v) == (k :> v) @@ d

(***************************************************************************)
(* DataHandler.load_data                                                   *)
(***************************************************************************)
file_types == {S_pdf, S_docx, S_txt, S_pptx, S_nxml}

\* os.walk(data_path): the root's files in any order, then the subdirectory's
WalkListings(files) ==
    {o1 \o o2 : o1 \in Orders({f \in files : DirOf(f) = RootDir}),
                o2 \in Orders({f \in files : DirOf(f) = SubDir})}

\* what load_data does with one file name of the walk
LoadKeeps(file) == LastDotPiece(file) \in file_types

LoadIgnores(file) == file = S_gitkeep

RECURSIVE LoadWalk(_, _, _)
LoadWalk(listing, d, files) ==
    IF listing = << >> THEN [data |-> d, fs |-> files]
    ELSE LET path == Head(listing)
             root == DirOf(path)
             file == NameOf(path)
         IN IF LoadKeeps(file)
            THEN LoadWalk(Tail(listing), Append(d, PathJoin(root, file)), files)
            ELSE IF LoadIgnores(file)
            THEN LoadWalk(Tail(listing), d, files)
            ELSE LoadWalk(Tail(listing), d, files \ {PathJoin(root, file)})

load_data ==
    /\ hstate = "ready"
    /\ loads < MaxLoads
    /\ \E listing \in WalkListings(fs) :
          LET r == LoadWalk(listing, data, fs) IN
          /\ data' = r.data
          /\ fs' = r.fs
    /\ loads' = loads + 1
    /\ lastOp' = "load_data"
    /\ lastError' = ""
    /\ embedCalls' = 0
    /\ UNCHANGED << cleaned, artifact, data_dict, vectorized_data, hstate, cleanLog >>
    /\ UNCHANGED lvars

(***************************************************************************)
(* DataHandler.clean_data                                                  *)
(***************************************************************************)
invalid_chars == {"<", ">", ":", "\"", "/", "\\", "|", "?", "*"}

IsValidChar(c) == c \notin invalid_chars

\* the sanitized title of lines 118-120
SafeTitle(title) == Strip(SelectSeq(title, IsValidChar))

\* the extractor clean_data picks for a path, "skip" for no extractor
Dispatch(file) ==
    LET ext == LastDotPiece(file) IN
    IF ext \in {S_pdf, S_PDF} THEN clean_pdf(file)
    ELSE IF ext \in {S_txt, S_TXT} THEN clean_txt(file)
    ELSE IF ext \in {S_docx, S_DOCX} THEN clean_docx(file)
    ELSE IF ext \in {S_pptx, S_PPTX} THEN clean_pptx(file)
    ELSE IF ext = S_nxml THEN clean_nxml(file)
    ELSE [raise |-> "skip"]

\* lines 112-114: the pair an extractor returned makes clean_data skip the file
SkipsResult(r) == r.title = None \/ r.text = None

\* the key under which line 115 stores the text
DictKey(title) == title

\* one iteration of the loop of clean_data on state st = [data_dict, cleaned, log, raise]
CleanOne(st, file) ==
    LET r == Dispatch(file) IN
    IF r.raise = "skip" THEN st
    ELSE IF r.raise # "" THEN [st EXCEPT !.raise = r.raise]
    ELSE IF SkipsResult(r) THEN st
    ELSE LET safe_title == SafeTitle(r.title)
             name == safe_title \o S_dot_txt
         IN [data_dict |-> DictSet(st.data_dict, DictKey(r.title), r.text),
             cleaned |-> DictSet(st.cleaned, name, r.text),
             log |-> Append(st.log, [file |-> file, key |-> DictKey(r.title),
                                     written |-> name, text |-> r.text]),
             raise |-> ""]

\* clean_data with "break" in place of the "continue" of line 114
RECURSIVE CleanWalkBreak(_, _)
CleanWalkBreak(files, st) ==
    IF files = << >> \/ st.raise # "" THEN st
    ELSE LET r == Dispatch(Head(files)) IN
         IF r.raise = "" /\ SkipsResult(r) THEN st
         ELSE CleanWalkBreak(Tail(files), CleanOne(st, Head(files)))

RECURSIVE CleanWalk(_, _)
CleanWalk(files, st) ==
    IF files = << >> \/ st.raise # "" THEN st
    ELSE CleanWalk(Tail(files), CleanOne(st, Head(files)))

clean_data ==
    /\ hstate = "ready"
    /\ LET r == CleanWalk(data, [data_dict |-> data_dict, cleaned |-> cleaned,
                                 log |-> << >>, raise |-> ""])
       IN /\ data_dict' = r.data_dict
          /\ cleaned' = r.cleaned
          /\ cleanLog' = r.log
          /\ lastError' = r.raise
          /\ hstate' = IF r.raise = "" THEN "ready" ELSE "failed"
    /\ lastOp' = "clean_data"
    /\ embedCalls' = 0
    /\ UNCHANGED << fs, artifact, data, vectorized_data, loads >>
    /\ UNCHANGED lvars


(***************************************************************************)
(* DataHandler.vectorize_data and load_vectorized_data                     *)
(***************************************************************************)
\* utils.embed_text: an opaque function of the text
Embed(text) == << "embedding" >> \o text

\* json.dump writes a None key as "null"; string keys are written as they are
JsonKey(k) == IF k = None THEN << "n", "u", "l", "l" >> ELSE k

JsonDump(m) ==
    [j \in {JsonKey(k) : k \in DOMAIN m} |->
        m[CHOOSE k \in DOMAIN m : JsonKey(k) = j]]

JsonLoad(j) == j

\* lines 139-147: rebuild data_dict from the files of clean_data_path
RECURSIVE ReadCleaned(_, _, _)
ReadCleaned(listing, dir, dd) ==
    IF listing = << >> THEN dd
    ELSE LET file == Head(listing) IN
         ReadCleaned(Tail(listing), dir, DictSet(dd, PathStem(file), dir[file]))

\* line 155: the key that is never embedded
VectorizeSkips(title) == title = S_gitkeep

\* lines 154-158: the mapping the loop leaves in self.vectorized_data
EmbedAll(dd, vd) ==
    LET fresh == {t \in DOMAIN dd : ~VectorizeSkips(t)} IN
    [t \in DOMAIN vd \cup fresh |-> IF t \in fresh THEN Embed(dd[t]) ELSE vd[t]]

\* line 149
NoData(dd) == DOMAIN dd = {}

vectorize_data ==
    /\ hstate = "ready"
    /\ \E listing \in (IF NoData(data_dict) THEN Orders(DOMAIN cleaned) ELSE {<< >>}) :
          LET dd == IF NoData(data_dict)
                    THEN ReadCleaned(listing, cleaned, data_dict)
                    ELSE data_dict
          IN /\ data_dict' = dd
             /\ IF NoData(dd)
                THEN /\ hstate' = "failed"
                     /\ lastError' = "ValueError"
                     /\ embedCalls' = 0
                     /\ UNCHANGED << vectorized_data, artifact >>
                ELSE /\ vectorized_data' = EmbedAll(dd, vectorized_data)
                     /\ embedCalls' = Cardinality({t \in DOMAIN dd : ~VectorizeSkips(t)})
                     /\ artifact' = [exists |-> TRUE,
                                     json |-> JsonDump(EmbedAll(dd, vectorized_data))]
                     /\ lastError' = ""
                     /\ UNCHANGED hstate
    /\ lastOp' = "vectorize_data"
    /\ UNCHANGED << fs, cleaned, data, loads, cleanLog >>
    /\ UNCHANGED lvars

load_vectorized_data ==
    /\ hstate = "ready"
    /\ IF artifact.exists
       THEN /\ vectorized_data' = JsonLoad(artifact.json)
            /\ lastError' = ""
            /\ UNCHANGED hstate
       ELSE /\ hstate' = "failed"
            /\ lastError' = "FileNotFoundError"
            /\ UNCHANGED vectorized_data
    /\ lastOp' = "load_vectorized_data"
    /\ embedCalls' = 0
    /\ UNCHANGED << fs, cleaned, artifact, data, data_dict, loads, cleanLog >>
    /\ UNCHANGED lvars

(***************************************************************************)
(* Initial states of the handler: a freshly constructed DataHandler over   *)
(* a source tree, a cleaned-data directory and a vectorized-data directory *)
(* that an earlier run may have filled.                                    *)
(***************************************************************************)
OldCleaned ==
    (S_gitkeep :> << >>) @@ (<< "r", ".", "t", "x", "t" >> :> << "o" >>)

OldArtifact == [exists |-> TRUE, json |-> (<< "r" >> :> Embed(<< "o" >>))]

NoArtifact == [exists |-> FALSE, json |-> EmptyDict]

\* [cleaned, artifact]: both directories empty, the cleaned-data directory
\* holding its placeholder only, or both as an earlier run left them
InitialDirs ==
    { [cleaned |-> EmptyDict, artifact |-> NoArtifact],
      [cleaned |-> S_gitkeep :> << >>, artifact |-> NoArtifact],
      [cleaned |-> OldCleaned, artifact |-> OldArtifact] }

NoTurn == [outcome |-> "none"]

InitHandler ==
    /\ fs \in {S \in SUBSET AllPaths : Cardinality(S) <= MaxFiles}
    /\ \E dirs \in InitialDirs :
          /\ cleaned = dirs.cleaned
          /\ artifact = dirs.artifact
    /\ data = << >>
    /\ data_dict = EmptyDict
    /\ vectorized_data = EmptyDict
    /\ hstate = "ready"
    /\ loads = 0
    /\ lastOp = "init"
    /\ lastError = ""
    /\ embedCalls = 0
    /\ cleanLog = << >>

Init ==
    /\ InitHandler
    /\ pc = "idle"
    /\ turns = 0
    /\ turn = NoTurn

(***************************************************************************)
(* The query loop of pipeline.py                                           *)
(***************************************************************************)
\* the lines input() may return
InputLines ==
    { << "q" >>, << "Q" >>, << " ", "q", " " >>, << "q", "q" >>,
      << "h", "i" >>, << >> }

Id_42 ==
    << "4", "2", "_", "D", "i", "a", "b", "e", "t", "e", "s", " ",
       "O", "v", "e", "r", "v", "i", "e", "w" >>

\* what vector_db.search may return: kind is the Python type, items the
\* (key, value) pairs of .items() in order; a list and None have no .items()
ContextResults ==
    { [kind |-> "dict", items |-> << >>],
      [kind |-> "dict", items |-> << << Id_42, << "s" >> >> >>],
      [kind |-> "dict",
       items |-> << << << "4", "_", "D" >>, << "t" >> >>,
                    << << "1", "_", "a", "_", "b" >>, << "u" >> >>,
                    << << "7", "_", "D" >>, << "v" >> >> >>],
      [kind |-> "dict", items |-> << << << "_", "c" >>, << "t" >> >>,
                                     << << "9", "_" >>, << "u" >> >> >>],
      [kind |-> "dict", items |-> << << << "4", "_", "D" >>, << "t" >> >>,
                                     << << "x" >>, << "u" >> >> >>],
      [kind |-> "UserDict", items |-> << << << "4", "_", "D" >>, << "t" >> >> >>],
      [kind |-> "list", items |-> << << << "4", "_", "D" >>, << "t" >> >> >>],
      [kind |-> "NoneType", items |-> << >>] }

\* the object has an items() method
HasItems(ctx) == ctx.kind \in {"dict", "UserDict"}

\* isinstance(context_results, dict)
IsDict(ctx) == ctx.kind = "dict"

\* what the Ollama host does during one call of llm(): the answer to the
\* tags request, the result of "ollama pull", the answer to the generate
\* request and the lines of its body
LLMHosts ==
    { [tags |-> "unreachable", pull |-> "ok", post |-> "unreachable", lines |-> << >>],
      [tags |-> "present", pull |-> "ok", post |-> "unreachable", lines |-> << >>],
      [tags |-> "present", pull |-> "ok", post |-> "http_error", lines |-> << >>],
      [tags |-> "missing", pull |-> "failed", post |-> "ok", lines |-> << >>],
      [tags |-> "missing", pull |-> "ok", post |-> "ok",
       lines |-> << [kind |-> "json", has_response |-> TRUE, response |-> << "A" >>] >>],
      [tags |-> "present", pull |-> "ok", post |-> "ok",
       lines |-> << [kind |-> "json", has_response |-> TRUE, response |-> << "A" >>],
                    [kind |-> "blank", has_response |-> FALSE, response |-> << >>],
                    [kind |-> "json", has_response |-> FALSE, response |-> << >>],
                    [kind |-> "json", has_response |-> TRUE, response |-> << "B" >>] >>],
      [tags |-> "present", pull |-> "ok", post |-> "ok",
       lines |-> << [kind |-> "json", has_response |-> TRUE, response |-> << "A" >>],
                    [kind |-> "disconnect", has_response |-> FALSE, response |-> << >>] >>],
      [tags |-> "present", pull |-> "ok", post |-> "ok",
       lines |-> << [kind |-> "garbage", has_response |-> FALSE, response |-> << >>] >>] }

\* ensure_model: "" when it returns, else the exception it raises
ensure_model(host) ==
    IF host.tags = "unreachable" THEN "RuntimeError"
    ELSE IF host.tags = "missing" /\ host.pull # "ok" THEN "RuntimeError"
    ELSE ""

\* lines 159-165: the chunks yielded while reading the response body
RECURSIVE StreamLines(_, _)
StreamLines(lines, chunks) ==
    IF lines = << >> THEN [chunks |-> chunks, raise |-> ""]
    ELSE LET line == Head(lines) IN
         IF line.kind = "blank" THEN StreamLines(Tail(lines), chunks)
         ELSE IF line.kind = "json"
         THEN StreamLines(Tail(lines),
                          Append(chunks, IF line.has_response THEN line.response ELSE << >>))
         ELSE IF line.kind = "disconnect"
         THEN [chunks |-> Append(chunks, S_LLMError), raise |-> ""]
         ELSE [chunks |-> chunks, raise |-> "JSONDecodeError"]

\* llm(prompt): the chunks the generator yields and the exception that ends it
llm(host) ==
    IF ensure_model(host) # ""
    THEN [chunks |-> << >>, raise |-> ensure_model(host)]
    ELSE IF host.post # "ok"
    THEN [chunks |-> << S_LLMError >>, raise |-> ""]
    ELSE StreamLines(host.lines, << >>)

\* title.split("_", 1): the list of pieces
SplitId(title) == Split1(title, "_")

\* title.rsplit("_", 1)[1]: the piece after the last underscore
SourceNameLast(title) == SubSeq(title, RFind(title, "_") + 1, Len(title))

\* title.split("_", 1)[1], defined when the split has two pieces
SourceName(title) == SplitId(title)[2]

\* the context keys whose split has no second piece (IndexError)
BadIds(items) == {i \in 1..Len(items) : Len(SplitId(items[i][1])) < 2}

\* lines 202-205
Sources(items) == [i \in 1..Len(items) |-> << SourceName(items[i][1]), items[i][2] >>]

\* line 221
ReferenceList(items) == [i \in 1..Len(items) |-> SourceName(items[i][1])]

\* line 222: list(set(reference_list)), in any order
References(items) == Orders(Range(ReferenceList(items)))

\* build_system_prompt: the query and "\n\n".join of the formatted sources
RECURSIVE FormattedSources(_)
FormattedSources(sources) ==
    IF sources = << >> THEN << >>
    ELSE << "Source " >> \o Head(sources)[1] \o << " says ..." >> \o Head(sources)[2]
         \o << "..." >>
         \o (IF Len(sources) > 1 THEN << "\n", "\n" >> ELSE << >>)
         \o FormattedSources(Tail(sources))

build_system_prompt(prompt, sources) ==
    [prompt |-> prompt, formatted_sources |-> FormattedSources(sources)]

NoPrompt == [prompt |-> None, formatted_sources |-> None]

\* lines 195-198: the source names printed, up to the first key that has no
\* second piece
RECURSIVE Shown(_)
Shown(items) ==
    IF items = << >> \/ Len(SplitId(Head(items)[1])) < 2 THEN << >>
    ELSE << SourceName(Head(items)[1]) >> \o Shown(Tail(items))

\* no search was made
NoContext == [kind |-> "not searched", items |-> << >>]

\* one record per iteration of the while loop
TurnRecord(line, ctx, host, outcome, error, llmCalls, shown, sources, prompt, chunks, refs) ==
    [line |-> line, ctx |-> ctx, host |-> host, outcome |-> outcome, error |-> error,
     searches |-> IF ctx = NoContext THEN 0 ELSE 1, llmCalls |-> llmCalls,
     shown |-> shown, sources |-> sources, prompt |-> prompt,
     chunks |-> chunks, references |-> refs]

\* query == "q": the comparison of line 188 without .lower()
IsQuitExactCase(query) == query = << "q" >>

\* line 188
IsQuit(query) == Lower(query) = << "q" >>

\* lines 187-226: one iteration, with the reference order refs
Iteration(line, ctx, host, refs) ==
    LET query == Strip(line) IN
    IF IsQuit(query)
    THEN TurnRecord(line, NoContext, host, "quit", "", 0, << >>, << >>, NoPrompt,
                    << >>, << >>)
    ELSE IF ~HasItems(ctx)
    THEN TurnRecord(line, ctx, host, "crashed", "AttributeError", 0, << >>, << >>,
                    NoPrompt, << >>, << >>)
    ELSE IF BadIds(ctx.items) # {}
    THEN TurnRecord(line, ctx, host, "crashed", "IndexError", 0, Shown(ctx.items),
                    << >>, NoPrompt, << >>, << >>)
    ELSE IF ~IsDict(ctx)
    THEN TurnRecord(line, ctx, host, "aborted", "", 0, Shown(ctx.items), << >>,
                    NoPrompt, << >>, << >>)
    ELSE LET sources == Sources(ctx.items)
             prompt == build_system_prompt(query, sources)
             r == llm(host)
         IN IF r.raise # ""
            THEN TurnRecord(line, ctx, host, "crashed", r.raise, 1, Shown(ctx.items),
                            sources, prompt, r.chunks, << >>)
            ELSE TurnRecord(line, ctx, host, "completed", "", 1, Shown(ctx.items),
                            sources, prompt, r.chunks, refs)

\* the reference orders line 222 may produce for a context result
RefOrders(ctx) ==
    IF HasItems(ctx) /\ BadIds(ctx.items) = {} THEN References(ctx.items) ELSE {<< >>}

\* line 183: __get_llm raises when the ollama binary is not on the PATH
get_llm ==
    /\ pc = "start"
    /\ \E installed \in BOOLEAN :
          pc' = IF installed THEN "input" ELSE "crashed"
    /\ UNCHANGED << turns, turn >>
    /\ UNCHANGED hvars

loop_iteration ==
    /\ pc = "input"
    /\ turns < MaxTurns
    /\ \E line \in InputLines, ctx \in ContextResults, host \in LLMHosts :
          \E refs \in RefOrders(ctx) :
             /\ turn' = Iteration(line, ctx, host, refs)
             /\ pc' = CASE turn'.outcome = "quit" -> "done"
                        [] turn'.outcome = "crashed" -> "crashed"
                        [] OTHER -> "input"
    /\ turns' = turns + 1
    /\ UNCHANGED hvars

\* the handler the loop runs behind: built, and left alone by the loop
HandlerBuilt ==
    /\ fs = {}
    /\ cleaned = EmptyDict
    /\ artifact = NoArtifact
    /\ data = << >>
    /\ data_dict = EmptyDict
    /\ vectorized_data = EmptyDict
    /\ hstate = "ready"
    /\ loads = 0
    /\ lastOp = "init"
    /\ lastError = ""
    /\ embedCalls = 0
    /\ cleanLog = << >>

InitLoop ==
    /\ HandlerBuilt
    /\ pc = "start"
    /\ turns = 0
    /\ turn = NoTurn

NextLoop ==
    \/ get_llm
    \/ loop_iteration

SpecLoop == InitLoop /\ [][NextLoop]_vars

Next ==
    \/ load_data
    \/ clean_data
    \/ vectorize_data
    \/ load_vectorized_data

Spec == Init /\ [][Next]_vars


(***************************************************************************)
(* Properties                                                              *)
(***************************************************************************)
\* the extension of a file name: what follows its last dot, if it has one
ExtensionOf(name) ==
    IF RFind(name, ".") = 0 THEN << >>
    ELSE SubSeq(name, RFind(name, ".") + 1, Len(name))

\* the extension is in the supported set, compared case-insensitively
SupportedAnyCase(path) == Lower(ExtensionOf(NameOf(path))) \in file_types

\* the paths a step appended to self.data
Discovered(before, after) == Range(SubSeq(after, Len(before) + 1, Len(after)))

\* C1: discovery deletes exactly the files whose extension, compared
\* case-insensitively, is outside the supported set and whose name is not
\* .gitkeep; every other file still exists, and exactly the supported files
\* are returned as discovered paths.
C1_DiscoveryDeletesExactlyUnsupported ==
    [][ (lastOp' = "load_data" /\ loads' = loads + 1) =>
          /\ fs' = {f \in fs : SupportedAnyCase(f) \/ NameOf(f) = S_gitkeep}
          /\ Discovered(data, data') = {f \in fs : SupportedAnyCase(f)} ]_vars

\* a context result that is no mapping
NotAMapping(ctx) == ctx.kind \in {"list", "NoneType"}

\* C2: a turn whose context result is not a mapping is aborted (no prompt,
\* no model call) and the loop goes back to reading input; it never ends or
\* crashes the loop.
C2_NonMappingContextAbortsTurn ==
    (turn.outcome # "none" /\ turn.searches = 1 /\ NotAMapping(turn.ctx)) =>
        /\ turn.outcome = "aborted"
        /\ turn.prompt = NoPrompt
        /\ turn.llmCalls = 0
        /\ pc = "input"

\* the model host cannot be reached during the turn
HostDown(host) == host.tags = "unreachable" /\ host.post = "unreachable"

\* C3: in a turn in which the model host cannot be reached, the model call
\* yields exactly the sentinel chunk, the turn completes and the loop reads
\* the next input.
C3_UnreachableModelYieldsSentinel ==
    (turn.outcome # "none" /\ turn.llmCalls = 1 /\ HostDown(turn.host)) =>
        /\ turn.chunks = << S_LLMError >>
        /\ turn.outcome = "completed"
        /\ pc = "input"

\* a title that is safe as a file name
IsSanitized(title) ==
    /\ \A i \in 1..Len(title) : title[i] \notin invalid_chars
    /\ title # << >> => (title[1] \notin Whitespace /\ title[Len(title)] \notin Whitespace)

\* C4: after clean, every key of the title->text mapping is a sanitized
\* title and equals the stem of the cleaned-data file written for it.
C4_KeysAreSanitizedTitles ==
    (lastOp = "clean_data" /\ lastError = "") =>
        /\ \A k \in DOMAIN data_dict : IsSanitized(k)
        /\ \A i \in 1..Len(cleanLog) :
              cleanLog[i].key = PathStem(cleanLog[i].written)

\* C5: vectorize followed by load yields a mapping whose key set is the key
\* set of the title->text mapping given to vectorize, minus .gitkeep,
\* whatever ran on the handler before.
C5_VectorizeLoadRoundTrip ==
    [][ (lastOp = "vectorize_data" /\ lastError = ""
         /\ lastOp' = "load_vectorized_data") =>
          DOMAIN vectorized_data' = DOMAIN data_dict \ {S_gitkeep} ]_vars

\* C6: every key of the mapping persisted by the most recent vectorize is a
\* title of the title->text mapping at that call; no key of an earlier
\* vectorize or load is persisted.
C6_PersistedKeysAreCurrentTitles ==
    (lastOp = "vectorize_data" /\ lastError = "") =>
        DOMAIN artifact.json \subseteq DOMAIN data_dict

\* C7: vectorize fails with a terminal error, embeds nothing and leaves the
\* artifact unwritten whenever, after the fallback, nothing but possibly the
\* .gitkeep entry is available; a successful vectorize never persists an
\* empty mapping.
C7_NoDataIsTerminal ==
    [][ lastOp' = "vectorize_data" =>
          /\ (DOMAIN data_dict' \subseteq {S_gitkeep}) =>
                (lastError' = "ValueError" /\ embedCalls' = 0 /\ artifact' = artifact)
          /\ (lastError' = "") => DOMAIN artifact'.json # {} ]_vars

\* C8: after clean, every text that clean put into the mapping is non-empty.
C8_CleanedTextsNonEmpty ==
    (lastOp = "clean_data" /\ lastError = "") =>
        \A i \in 1..Len(cleanLog) :
            /\ cleanLog[i].text # << >>
            /\ data_dict[cleanLog[i].key] # << >>


\* the extractor fails softly on the document: it returns (None, None)
SoftFails(file) ==
    LET r == Dispatch(file) IN r.raise = "" /\ r.title = None /\ r.text = None

Survives(file) == ~SoftFails(file)

LogFiles(log) == [i \in 1..Len(log) |-> log[i].file]

\* C9: a document whose extractor returns (None, None) gets no mapping
\* entry and no cleaned-data file, its source file stays, and clean processes
\* every other document of the list; the mapping and the cleaned-data
\* directory come out as if the failing documents had not been in the list.
C9_SoftFailureSkipsOnlyThatDocument ==
    [][ (lastOp' = "clean_data" /\ lastError' = "") =>
          LET without == CleanWalk(SelectSeq(data, Survives),
                                   [data_dict |-> data_dict, cleaned |-> cleaned,
                                    log |-> << >>, raise |-> ""])
          IN /\ \A i \in 1..Len(data) :
                   SoftFails(data[i]) =>
                      /\ \A j \in 1..Len(cleanLog') : cleanLog'[j].file # data[i]
                      /\ data[i] \in fs => data[i] \in fs'
             /\ LogFiles(cleanLog') = SelectSeq(data, Survives)
             /\ data_dict' = without.data_dict
             /\ cleaned' = without.cleaned
             /\ DOMAIN data_dict' =
                   DOMAIN data_dict \cup {cleanLog'[j].key : j \in 1..Len(cleanLog')}
             /\ DOMAIN cleaned' =
                   DOMAIN cleaned \cup {cleanLog'[j].written : j \in 1..Len(cleanLog')} ]_vars

\* C9 witness: clean ran over a list in which a softly failing document
\* comes before a document that was stored, and the failing source file is
\* still there.
C9_Witness ==
    /\ lastOp = "clean_data"
    /\ lastError = ""
    /\ \E i, j \in 1..Len(data) :
          /\ i < j
          /\ SoftFails(data[i])
          /\ data[i] \in fs
          /\ \E k \in 1..Len(cleanLog) : cleanLog[k].file = data[j]

\* name is what follows the first underscore of id
AfterFirstUnderscore(id, name) ==
    \E k \in 1..Len(id) :
        /\ id[k] = "_"
        /\ \A j \in 1..(k - 1) : id[j] # "_"
        /\ name = SubSeq(id, k + 1, Len(id))

S_DiabetesOverview ==
    << "D", "i", "a", "b", "e", "t", "e", "s", " ", "O", "v", "e", "r", "v", "i", "e", "w" >>

\* C10: in a completed turn the source name of each context entry is the
\* part of its composite id after the first underscore, and the reference
\* list holds each distinct source name exactly once and nothing else.
C10_SourceNamesAndReferences ==
    turn.outcome = "completed" =>
        LET items == turn.ctx.items
            refs == turn.references
        IN /\ Len(turn.sources) = Len(items)
           /\ Len(turn.shown) = Len(items)
           /\ \A i \in 1..Len(items) :
                 /\ AfterFirstUnderscore(items[i][1], turn.sources[i][1])
                 /\ turn.shown[i] = turn.sources[i][1]
                 /\ turn.sources[i][2] = items[i][2]
                 /\ items[i][1] = Id_42 => turn.sources[i][1] = S_DiabetesOverview
           /\ \A i, j \in 1..Len(refs) : refs[i] = refs[j] => i = j
           /\ Range(refs) = {turn.sources[i][1] : i \in 1..Len(items)}

\* C10 witness: a completed turn in which two context entries share a source
\* name and a third has a second underscore in its id.
C10_Witness ==
    /\ turn.outcome = "completed"
    /\ \E i, j \in 1..Len(turn.ctx.items) :
          /\ i # j
          /\ turn.sources[i][1] = turn.sources[j][1]
    /\ \E i \in 1..Len(turn.ctx.items) : "_" \in Range(turn.sources[i][1])
    /\ Len(turn.references) = 2


\* the line is "q" or "Q"
EqualsQ(line) == line \in { << "q" >>, << "Q" >> }

\* the line is "q" or "Q" with nothing but whitespace around it
EqualsQAfterTrim(line) ==
    \E k \in 1..Len(line) :
        /\ line[k] \in {"q", "Q"}
        /\ \A i \in 1..Len(line) : i # k => line[i] \in Whitespace

\* the step reads an input line
ReadsLine == turns' = turns + 1

\* the step ends the loop on the line it read, with no search and no model call
QuitsOnLine ==
    /\ pc' = "done"
    /\ turn'.outcome = "quit"
    /\ turn'.searches = 0
    /\ turn'.llmCalls = 0

\* the step treats the line it read as a query: one search call
QueriesOnLine ==
    /\ turn'.outcome # "quit"
    /\ pc' # "done"
    /\ turn'.searches = 1

\* C11 as stated: a line equal to "q" case-insensitively ends the loop with
\* no search call and no model call, no input is read afterwards, and every
\* other line is a query that causes exactly one search call.
C11_QuitOnlyOnQ ==
    [][ /\ pc = "done" => turns' = turns
        /\ ReadsLine =>
              IF EqualsQ(turn'.line) THEN QuitsOnLine ELSE QueriesOnLine ]_vars

\* C11 amended: a line that equals "q" case-insensitively once its leading
\* and trailing whitespace is removed ends the loop with no search call and
\* no model call, after any number of earlier turns, and no input is read
\* afterwards; every other line is a query that causes exactly one search
\* call.
C11_QuitOnTrimmedQ ==
    [][ /\ pc = "done" => turns' = turns
        /\ ReadsLine =>
              IF EqualsQAfterTrim(turn'.line) THEN QuitsOnLine ELSE QueriesOnLine ]_vars

\* C11 witness: after an earlier turn, the line "Q" has ended the loop
\* without a search or a model call.
C11_Witness ==
    /\ turns > 1
    /\ pc = "done"
    /\ turn.line = << "Q" >>
    /\ turn.outcome = "quit"
    /\ turn.searches = 0
    /\ turn.llmCalls = 0

====
